---- MODULE Spec2Model ----
(***************************************************************************)
(* A model of uvm-rs: the sealing engine (crypto.rs), the wire codec       *)
(* (schema.rs), the credential store (model.rs) and the Import / Export    *)
(* orchestration (import.rs, export.rs, main.rs).                          *)
(*                                                                         *)
(* The primitives of the ring crate are modelled symbolically (ideal       *)
(* cryptography): an X25519 agreement is the unordered pair of the two     *)
(* private scalars, an HKDF output is the pair (secret, salt), an AES-GCM  *)
(* ciphertext is the triple (key, nonce, plaintext) and its tag the triple *)
(* (key, nonce, ciphertext).  Byte strings whose content is opaque carry   *)
(* their length and an identifier.                                         *)
(***************************************************************************)
EXTENDS Integers, Sequences, FiniteSets, TLC

\* ------------------------------------------------------------------ bounds
MaxKeys == 2        \* key pairs generated in one behaviour of the engine
MaxRand == 1        \* distinct values the CSPRNG can return for one draw
MaxTamper == 2      \* fields of an envelope the transport rewrites
MaxEvents == 2      \* watcher events waiting in the Import's channel
MaxBatch == 2       \* credentials in one batch handed to store_passkeys
MaxLen == 3         \* bytes in a byte string handed to the codec
MaxSeals == 2       \* seal calls that draw from one CSPRNG
MaxParties == 3     \* key pairs that take part in one exchange

\* ------------------------------------------------------- program constants
SALT_LEN == 32          \* crypto.rs: let mut salt_bytes = [0; 32]
NONCE_LEN == 12         \* crypto.rs: let mut nonce_bytes = [0; 12]
X25519_LEN == 32        \* the length of an X25519 public key
TAG_LEN == 16           \* the length of an AES_256_GCM tag

\* ------------------------------------------------------------ result values
NoVal == <<>>
Ok(v) == [ok |-> TRUE, val |-> v, err |-> "none"]
Err(e) == [ok |-> FALSE, val |-> NoVal, err |-> e]

\* =================================================================== codec
\* A base64 character is a number: 0..63 the standard alphabet ('+' is 62,
\* '/' is 63), 64 the padding '=', 65 and 66 the url characters '-' and '_'.
PAD == 64
URL_MINUS == 65
URL_UNDERSCORE == 66

RECURSIVE EncodeSextets(_)
EncodeSextets(data) ==
    IF Len(data) = 0 THEN <<>>
    ELSE IF Len(data) = 1 THEN
        LET n == data[1] * 16 IN << n \div 64, n % 64, PAD, PAD >>
    ELSE IF Len(data) = 2 THEN
        LET n == (data[1] * 256 + data[2]) * 4
        IN << n \div 4096, (n \div 64) % 64, n % 64, PAD >>
    ELSE
        LET n == data[1] * 65536 + data[2] * 256 + data[3]
        IN << n \div 262144, (n \div 4096) % 64, (n \div 64) % 64, n % 64 >>
           \o EncodeSextets(SubSeq(data, 4, Len(data)))

\* schema.rs base64: BASE64.encode, the padded standard alphabet.
base64(data) == EncodeSextets(data)

RECURSIVE trim_end_matches(_, _)
trim_end_matches(input, c) ==
    IF Len(input) > 0 /\ input[Len(input)] = c
    THEN trim_end_matches(SubSeq(input, 1, Len(input) - 1), c)
    ELSE input

\* The value of one character in the standard and in the url alphabet; -1
\* when the character is not of the alphabet.
StdValue(c) == IF c \in 0..63 THEN c ELSE -1
UrlValue(c) ==
    IF c \in 0..61 THEN c
    ELSE IF c = URL_MINUS THEN 62
    ELSE IF c = URL_UNDERSCORE THEN 63
    ELSE -1

\* Decoding of an unpadded text whose characters have the values vals;
\* checkBits is the encoding's check_trailing_bits.
RECURSIVE DecodeValues(_, _)
DecodeValues(vals, checkBits) ==
    IF Len(vals) = 0 THEN Ok(<<>>)
    ELSE IF Len(vals) = 1 THEN Err("length")
    ELSE IF Len(vals) = 2 THEN
        LET n == vals[1] * 64 + vals[2]
        IN IF checkBits /\ n % 16 # 0 THEN Err("trailing") ELSE Ok(<< n \div 16 >>)
    ELSE IF Len(vals) = 3 THEN
        LET n == vals[1] * 4096 + vals[2] * 64 + vals[3]
        IN IF checkBits /\ n % 4 # 0 THEN Err("trailing")
           ELSE Ok(<< n \div 1024, (n \div 4) % 256 >>)
    ELSE
        LET n == vals[1] * 262144 + vals[2] * 4096 + vals[3] * 64 + vals[4]
            rest == DecodeValues(SubSeq(vals, 5, Len(vals)), checkBits)
        IN IF rest.ok
           THEN Ok(<< n \div 65536, (n \div 256) % 256, n % 256 >> \o rest.val)
           ELSE rest

\* schema.rs try_from_base64: trim the padding, decode as BASE64_NOPAD.
try_from_base64(input) ==
    LET sane_string == trim_end_matches(input, PAD)
        vals == [i \in 1..Len(sane_string) |-> StdValue(sane_string[i])]
    IN IF \E i \in 1..Len(vals) : vals[i] = -1
       THEN Err("symbol")
       ELSE DecodeValues(vals, TRUE)

\* schema.rs try_from_base64url: trim the padding, decode as unpadded
\* BASE64URL with check_trailing_bits off.
try_from_base64url(input) ==
    LET sane_string == trim_end_matches(input, PAD)
        vals == [i \in 1..Len(sane_string) |-> UrlValue(sane_string[i])]
    IN IF \E i \in 1..Len(vals) : vals[i] = -1
       THEN Err("symbol")
       ELSE DecodeValues(vals, FALSE)

\* BASE64URL.encode: the padded url alphabet, '-' for 62 and '_' for 63.
base64url(data) ==
    LET std == EncodeSextets(data)
    IN [i \in 1..Len(std) |->
           IF std[i] = 62 THEN URL_MINUS
           ELSE IF std[i] = 63 THEN URL_UNDERSCORE
           ELSE std[i]]

\* The four texts a sender can write for a byte string.
EncodingForms == {"base64", "base64_nopad", "base64url", "base64url_nopad"}
encode_as(form, data) ==
    CASE form = "base64" -> base64(data)
      [] form = "base64_nopad" -> trim_end_matches(base64(data), PAD)
      [] form = "base64url" -> base64url(data)
      [] form = "base64url_nopad" -> trim_end_matches(base64url(data), PAD)

\* A decoder that does not fall back to base64url.
base64_deserialize_no_fallback(encoded) == try_from_base64(encoded)

\* schema.rs mod base64, deserialize: base64 first, base64url as fallback.
base64_deserialize(encoded) ==
    LET first == try_from_base64(encoded)
    IN IF first.ok THEN first
       ELSE LET second == try_from_base64url(encoded)
            IN IF second.ok THEN second
               ELSE Err("could not decode as base64 or base64url")

\* ============================================================== data model
\* schema.rs Passkey.  Text fields are strings; counter is a sequence of
\* characters ("0".."9", "+", "-", "x") so that parse::<u64> and to_string
\* can be computed; private_key is a sequence of bytes.
Passkey(id, rp, user, counter, alg, key) ==
    [credential_id |-> id, relying_party_id |-> rp, relying_party_name |-> rp,
     user_handle |-> user, user_display_name |-> user, counter |-> counter,
     key_algorithm |-> alg, private_key |-> key]

\* The credentials the model draws from: the two of crypto.rs mock_vault
\* (shortened keys), one that shares its credential_id with the first, and
\* ones whose counter is not in canonical decimal form.
PK_wendy == Passkey("AFTS", "1password", "wendy", <<"0">>, "-7", <<218, 32, 172>>)
PK_ebay == Passkey("Y4Mw", "ebay", "appleseed", <<"4", "2">>, "-7", <<202, 71>>)
PK_wendy2 == Passkey("AFTS", "1password", "wendy", <<"7">>, "-8", <<255>>)
PK_zeros == Passkey("zero", "example", "zed", <<"0", "7">>, "-7", <<>>)
PK_text == Passkey("text", "example", "tex", <<"x">>, "-7", <<251, 255, 254>>)
\* A credential whose counter is u64::MAX.
PK_big == Passkey("big", "example", "bea",
                  <<"1", "8", "4", "4", "6", "7", "4", "4", "0", "7",
                    "3", "7", "0", "9", "5", "5", "1", "6", "1", "5">>, "-7", <<1>>)

PasskeyUniverse == {PK_wendy, PK_ebay, PK_wendy2, PK_zeros, PK_text, PK_big}

\* schema.rs Vault
Vault(passkeys) == [passkeys |-> passkeys]

\* The vaults the model draws from: empty, one credential, the mock vault in
\* both orders, a repeated credential_id, odd counters.
Vaults ==
    {Vault(<<>>), Vault(<<PK_wendy>>), Vault(<<PK_wendy, PK_ebay>>),
     Vault(<<PK_ebay, PK_wendy>>), Vault(<<PK_wendy, PK_wendy2>>),
     Vault(<<PK_zeros, PK_text>>)}

\* ------------------------------------------------- what is shown of them
\* The Debug text of a value: of a string its quoted text, of a byte vector
\* the list of its bytes, of a struct its name and its fields in order.
DebugStr(s) == [kind |-> "str", text |-> s]
DebugBytes(b) == [kind |-> "bytes", items |-> b]
DebugStruct(name, fields) == [name |-> name, fields |-> fields]

\* A Debug of Passkey as derive(Debug) writes it, the key included.
Passkey_fmt_derived(pk) ==
    DebugStruct("Passkey",
        << <<"credential_id", DebugStr(pk.credential_id)>>,
           <<"relying_party_id", DebugStr(pk.relying_party_id)>>,
           <<"relying_party_name", DebugStr(pk.relying_party_name)>>,
           <<"user_handle", DebugStr(pk.user_handle)>>,
           <<"user_display_name", DebugStr(pk.user_display_name)>>,
           <<"counter", DebugStr(pk.counter)>>,
           <<"key_algorithm", DebugStr(pk.key_algorithm)>>,
           <<"private_key", DebugBytes(pk.private_key)>> >>)

\* schema.rs impl Debug for Passkey
Passkey_fmt(pk) ==
    DebugStruct("Passkey",
        << <<"credential_id", DebugStr(pk.credential_id)>>,
           <<"relying_party_id", DebugStr(pk.relying_party_id)>>,
           <<"relying_party_name", DebugStr(pk.relying_party_name)>>,
           <<"user_handle", DebugStr(pk.user_handle)>>,
           <<"user_display_name", DebugStr(pk.user_display_name)>>,
           <<"counter", DebugStr(pk.counter)>>,
           <<"key_algorithm", DebugStr(pk.key_algorithm)>>,
           <<"private_key", DebugStr("<Redacted>")>> >>)

\* schema.rs derive(Debug) for Vault: the Debug of each of its passkeys.
Vault_fmt(vault) ==
    DebugStruct("Vault",
        << <<"passkeys", [i \in 1..Len(vault.passkeys) |-> Passkey_fmt(vault.passkeys[i])]>> >>)

\* export.rs:18, dbg!(&vault): the expression and the Debug of its value.
dbg(vault) == [expr |-> "&vault", value |-> Vault_fmt(vault)]

\* main.rs list: the table of the passkeys; of the fields of Passkey only
\* relying_party_name and user_display_name are not tabled(skip).
list(passkeys) ==
    [header |-> <<"Website", "Username">>,
     rows |-> [i \in 1..Len(passkeys) |->
                  <<passkeys[i].relying_party_name, passkeys[i].user_display_name>>]]

\* ------------------------------------------------- counter: String <-> u64
\* A u64 is held as its canonical decimal digits (no leading zero), which
\* keeps the full 64-bit range exact.
Digits == {"0", "1", "2", "3", "4", "5", "6", "7", "8", "9"}
DigitValue(c) ==
    CASE c = "0" -> 0 [] c = "1" -> 1 [] c = "2" -> 2 [] c = "3" -> 3
      [] c = "4" -> 4 [] c = "5" -> 5 [] c = "6" -> 6 [] c = "7" -> 7
      [] c = "8" -> 8 [] c = "9" -> 9 [] OTHER -> -1

U64_MAX_DIGITS ==
    <<"1", "8", "4", "4", "6", "7", "4", "4", "0", "7",
      "3", "7", "0", "9", "5", "5", "1", "6", "1", "5">>
I64_MAX_DIGITS ==
    <<"9", "2", "2", "3", "3", "7", "2", "0", "3", "6",
      "8", "5", "4", "7", "7", "5", "8", "0", "7">>

RECURSIVE StripZeros(_)
StripZeros(s) ==
    IF Len(s) > 1 /\ s[1] = "0" THEN StripZeros(Tail(s)) ELSE s

\* a <= b for canonical digit sequences
RECURSIVE LexLeq(_, _)
LexLeq(a, b) ==
    IF Len(a) = 0 THEN TRUE
    ELSE IF DigitValue(a[1]) # DigitValue(b[1]) THEN DigitValue(a[1]) < DigitValue(b[1])
    ELSE LexLeq(Tail(a), Tail(b))
NumLeq(a, b) == Len(a) < Len(b) \/ (Len(a) = Len(b) /\ LexLeq(a, b))

\* str::parse::<u64>: an optional '+', then at least one decimal digit, the
\* value at most u64::MAX.
parse_u64(s) ==
    LET digits == IF Len(s) > 0 /\ s[1] = "+" THEN Tail(s) ELSE s
    IN IF Len(s) = 0 THEN Err("Empty")
       ELSE IF Len(digits) = 0 THEN Err("InvalidDigit")
       ELSE IF \E i \in 1..Len(digits) : digits[i] \notin Digits THEN Err("InvalidDigit")
       ELSE IF ~NumLeq(StripZeros(digits), U64_MAX_DIGITS) THEN Err("PosOverflow")
       ELSE Ok(StripZeros(digits))

\* u64::to_string
to_string(n) == n

\* ------------------------------------------------------------- serde_json
\* The JSON document of a vault: camelCase keys, privateKey as base64 text.
PasskeyJson(pk) ==
    [credentialId |-> pk.credential_id, relyingPartyId |-> pk.relying_party_id,
     relyingPartyName |-> pk.relying_party_name, userHandle |-> pk.user_handle,
     userDisplayName |-> pk.user_display_name, counter |-> pk.counter,
     keyAlgorithm |-> pk.key_algorithm, privateKey |-> base64(pk.private_key)]

\* serde_json::to_vec(&vault)
to_vec(vault) ==
    [kind |-> "vault",
     passkeys |-> [i \in 1..Len(vault.passkeys) |-> PasskeyJson(vault.passkeys[i])]]

\* Bytes that are no JSON document of a vault.
JunkDoc == [kind |-> "junk", passkeys |-> <<>>]

\* The number of bytes of a document: the compact JSON text serde_json
\* writes, {"passkeys":[{"credentialId":"..",..},..]}.
json_member_len(name, value) == Len(name) + Len(value) + 5
json_passkey_len(o) ==
    json_member_len("credentialId", o.credentialId)
    + json_member_len("relyingPartyId", o.relyingPartyId)
    + json_member_len("relyingPartyName", o.relyingPartyName)
    + json_member_len("userHandle", o.userHandle)
    + json_member_len("userDisplayName", o.userDisplayName)
    + json_member_len("counter", o.counter)
    + json_member_len("keyAlgorithm", o.keyAlgorithm)
    + json_member_len("privateKey", o.privateKey)
    + 9
RECURSIVE json_passkeys_len(_)
json_passkeys_len(os) ==
    IF Len(os) = 0 THEN 0
    ELSE json_passkey_len(os[1]) + (IF Len(os) > 1 THEN 1 ELSE 0)
         + json_passkeys_len(Tail(os))
json_len(doc) ==
    IF doc.kind = "vault" THEN 15 + json_passkeys_len(doc.passkeys) ELSE 4

PasskeyFromJson(o) ==
    [credential_id |-> o.credentialId, relying_party_id |-> o.relyingPartyId,
     relying_party_name |-> o.relyingPartyName, user_handle |-> o.userHandle,
     user_display_name |-> o.userDisplayName, counter |-> o.counter,
     key_algorithm |-> o.keyAlgorithm,
     private_key |-> base64_deserialize(o.privateKey).val]

\* serde_json::from_slice::<Vault>
from_slice(doc) ==
    IF doc.kind # "vault" THEN Err("Decoding")
    ELSE IF \E i \in 1..Len(doc.passkeys) : ~base64_deserialize(doc.passkeys[i].privateKey).ok
    THEN Err("Decoding")
    ELSE Ok(Vault([i \in 1..Len(doc.passkeys) |-> PasskeyFromJson(doc.passkeys[i])]))

\* ================================================================== crypto
\* A private scalar is named by the identifier of its key pair; identifier
\* 0 names no scalar: the point 0 is a point of low order, with which every
\* agreement yields the all-zero secret that X25519 rejects.
LowOrderPoint == [len |-> X25519_LEN, point |-> 0]

\* EphemeralPrivateKey::compute_public_key
compute_public_key(k) == [len |-> X25519_LEN, point |-> k]

\* schema.rs OpenBox
OpenBox(public_key) == [public_key |-> public_key]

\* schema.rs SealedBox
SealedBox(public_key, encrypted_vault, key_derivation_salt, encryption_nonce, authentication_tag) ==
    [public_key |-> public_key, encrypted_vault |-> encrypted_vault,
     key_derivation_salt |-> key_derivation_salt,
     encryption_nonce |-> encryption_nonce,
     authentication_tag |-> authentication_tag]

\* crypto.rs LocalKeyPair::to_open_box
to_open_box(k) == OpenBox(compute_public_key(k))

\* rng.fill of len bytes: draw 0 is the failure of the CSPRNG, any other
\* draw names the bytes returned.
fill(len, draw) == IF draw = 0 THEN Err("Unspecified") ELSE Ok([len |-> len, v |-> draw])

\* The error values the code hands to the fallible steps.
seal_agree_error == "ParsingPeerKey"    \* crypto.rs:84
open_agree_error == "KeyExpansion"      \* crypto.rs:110
hkdf_expand_error == "KeyExpansion"     \* crypto.rs:131

\* Prk::expand to a key of len bytes: fails only beyond 255 hash lengths.
AES_256_GCM_KEY_LEN == 32
SHA256_LEN == 32
expand(prk, len) == IF len > 255 * SHA256_LEN THEN Err("Unspecified") ELSE Ok(prk)

\* A derivation that leaves the shared secret out of the key.
hkdf_salt_only(shared_secret, salt) ==
    LET prk == [secret |-> {}, salt |-> salt]
        okm == expand(prk, AES_256_GCM_KEY_LEN)
    IN IF okm.ok THEN Ok(okm.val) ELSE Err(hkdf_expand_error)

\* crypto.rs hkdf: extract with the salt, expand to an AES_256_GCM key.
hkdf(shared_secret, salt) ==
    LET prk == [secret |-> shared_secret, salt |-> salt]
        okm == expand(prk, AES_256_GCM_KEY_LEN)
    IN IF okm.ok THEN Ok(okm.val) ELSE Err(hkdf_expand_error)

\* ring agree_ephemeral: the peer key must be a 32-byte string and the
\* shared secret must not be all zero; then the kdf's result is returned.
agree_ephemeral(k, peer_public_key, error_value, salt) ==
    IF peer_public_key.len # X25519_LEN \/ peer_public_key.point = 0
    THEN Err(error_value)
    ELSE hkdf({k, peer_public_key.point}, salt)

\* A sealing that leaves the buffer as it is.
AeadCiphertext_in_clear(key, nonce, plaintext) == plaintext

\* AES-256-GCM: ciphertext and tag of a plaintext under a key and a nonce.
\* flip counts the bits changed after sealing.
AeadCiphertext(key, nonce, plaintext) ==
    [key |-> key, nonce |-> nonce, plaintext |-> plaintext, flip |-> 0]
AeadTag(key, nonce, ciphertext) ==
    [len |-> TAG_LEN, key |-> key, nonce |-> nonce, over |-> ciphertext, flip |-> 0]

\* AES-256-GCM encrypts in place: the ciphertext has the length of the
\* plaintext, the tag is kept apart.
aead_len(ciphertext) == json_len(ciphertext.plaintext)

\* Whether a byte string starts with, or contains, another one of its own
\* length: under ideal encryption a ciphertext is the plaintext only when
\* nothing was encrypted.
starts_with(bytes, prefix) == bytes = prefix
contains(bytes, part) == starts_with(bytes, part)

\* A decryption that releases the plaintext without verifying the tag.
open_in_place_unverified(key, nonce, ciphertext, tag) ==
    Ok(ciphertext.plaintext)

\* LessSafeKey::open_in_place: verify the tag, then decrypt.
open_in_place(key, nonce, ciphertext, tag) ==
    IF tag = AeadTag(key, nonce, ciphertext)
    THEN Ok(ciphertext.plaintext)
    ELSE Err("Unspecified")

\* A seal that uses the all-zero nonce in place of a drawn one.
seal_fixed_nonce(k, open_box, vault, rng) ==
    LET salt_bytes == fill(SALT_LEN, rng.salt)
        public_key == compute_public_key(k)
        nonce_bytes == Ok([len |-> NONCE_LEN, v |-> 0])
        key == agree_ephemeral(k, open_box.public_key, seal_agree_error, salt_bytes.val)
        encoded_vault == to_vec(vault)
        ciphertext == AeadCiphertext(key.val, nonce_bytes.val, encoded_vault)
        tag == AeadTag(key.val, nonce_bytes.val, ciphertext)
    IN IF ~salt_bytes.ok THEN Err("Csprng")
       ELSE IF fill(NONCE_LEN, rng.nonce).ok = FALSE THEN Err("Csprng")
       ELSE IF ~key.ok THEN key
       ELSE Ok(SealedBox(public_key, ciphertext, salt_bytes.val, nonce_bytes.val, tag))

\* crypto.rs LocalKeyPair::seal.  rng gives the two draws of the CSPRNG in
\* the order of the calls.
seal(k, open_box, vault, rng) ==
    LET salt_bytes == fill(SALT_LEN, rng.salt)
        public_key == compute_public_key(k)
        nonce_bytes == fill(NONCE_LEN, rng.nonce)
        key == agree_ephemeral(k, open_box.public_key, seal_agree_error, salt_bytes.val)
        encoded_vault == to_vec(vault)
        ciphertext == AeadCiphertext(key.val, nonce_bytes.val, encoded_vault)
        tag == AeadTag(key.val, nonce_bytes.val, ciphertext)
    IN IF ~salt_bytes.ok THEN Err("Csprng")
       ELSE IF ~nonce_bytes.ok THEN Err("Csprng")
       ELSE IF ~key.ok THEN key
       ELSE Ok(SealedBox(public_key, ciphertext, salt_bytes.val, nonce_bytes.val, tag))

Panic == [ok |-> FALSE, val |-> NoVal, err |-> "panic"]

\* The step of open that decides its result: "nonce", "agreement",
\* "authentication", "deserialization", or "done" when it returns a vault.
open_step(k, sealed) ==
    LET key == agree_ephemeral(k, sealed.public_key, open_agree_error,
                               sealed.key_derivation_salt)
        decrypted_vault == open_in_place(key.val, sealed.encryption_nonce,
                                         sealed.encrypted_vault, sealed.authentication_tag)
    IN IF sealed.encryption_nonce.len # NONCE_LEN THEN "nonce"
       ELSE IF ~key.ok THEN "agreement"
       ELSE IF ~decrypted_vault.ok THEN "authentication"
       ELSE IF ~from_slice(decrypted_vault.val).ok THEN "deserialization"
       ELSE "done"

\* An open that derives the key with the nonce in place of the salt.
open_salt_from_nonce(k, sealed) ==
    LET key == agree_ephemeral(k, sealed.public_key, open_agree_error,
                               sealed.encryption_nonce)
        decrypted_vault == open_in_place(key.val, sealed.encryption_nonce,
                                         sealed.encrypted_vault, sealed.authentication_tag)
    IN IF sealed.encryption_nonce.len # NONCE_LEN THEN Panic
       ELSE IF ~key.ok THEN key
       ELSE IF ~decrypted_vault.ok THEN Err("Opening")
       ELSE from_slice(decrypted_vault.val)

\* crypto.rs LocalKeyPair::open
open(k, sealed) ==
    LET key == agree_ephemeral(k, sealed.public_key, open_agree_error,
                               sealed.key_derivation_salt)
        decrypted_vault == open_in_place(key.val, sealed.encryption_nonce,
                                         sealed.encrypted_vault, sealed.authentication_tag)
    IN IF sealed.encryption_nonce.len # NONCE_LEN THEN Panic
       ELSE IF ~key.ok THEN key
       ELSE IF ~decrypted_vault.ok THEN Err("Opening")
       ELSE from_slice(decrypted_vault.val)

\* ======================================================== credential store
\* One row of table passkeys, as the INSERT of store_passkeys binds it: the
\* counter as an integer, the key as base64 text.  No column holds
\* key_algorithm.
Row(pk, counter) ==
    [id |-> pk.credential_id, rp_id |-> pk.relying_party_id,
     rp_name |-> pk.relying_party_name, user_id |-> pk.user_handle,
     username |-> pk.user_display_name, counter |-> counter,
     key |-> base64(pk.private_key)]

\* rusqlite binds a u64 as an SQLite integer, which is an i64.
to_sql_u64(n) ==
    IF NumLeq(n, I64_MAX_DIGITS) THEN Ok(n) ELSE Err("ToSqlConversionFailure")

\* The rows that conflict with a new row: table passkeys is keyed by "id".
conflicting(rows, row) == {i \in 1..Len(rows) : rows[i].id = row.id}

RECURSIVE Without(_, _)
Without(rows, idx) ==
    IF Len(rows) = 0 THEN <<>>
    ELSE LET rest == Without(SubSeq(rows, 1, Len(rows) - 1), idx)
         IN IF Len(rows) \in idx THEN rest ELSE Append(rest, rows[Len(rows)])

\* INSERT OR REPLACE INTO passkeys: delete the conflicting rows, add the row.
insert_or_replace(rows, row) == Append(Without(rows, conflicting(rows, row)), row)

\* The loop of store_passkeys from the i-th credential on, inside the
\* transaction whose rows are tx.
RECURSIVE execute_all(_, _, _)
execute_all(tx, passkeys, i) ==
    IF i > Len(passkeys) THEN [res |-> Ok(NoVal), tx |-> tx]
    ELSE LET pk == passkeys[i]
             counter == parse_u64(pk.counter)
             bound == to_sql_u64(counter.val)
         IN IF ~counter.ok THEN [res |-> Panic, tx |-> tx]
            ELSE IF ~bound.ok THEN [res |-> Err(bound.err), tx |-> tx]
            ELSE execute_all(insert_or_replace(tx, Row(pk, bound.val)), passkeys, i + 1)

\* A connection that keeps every row written so far when the transaction
\* ends without a commit.
drop_transaction_keeps(before, tx) == tx

\* The end of a rusqlite Transaction that was not committed: its drop
\* behaviour is to roll back, so the connection keeps the rows it had.
drop_transaction(before, tx) == before

\* model.rs store_passkeys: the result returned and the rows of the
\* connection afterwards.  No path of the function commits the transaction.
store_passkeys(conn, passkeys) ==
    LET run == execute_all(conn, passkeys, 1)
    IN [res |-> run.res, conn |-> drop_transaction(conn, run.tx)]

\* fetch_passkeys builds a Passkey from seven columns; key_algorithm is read
\* from none of them.
unselected_key_algorithm == ""

\* model.rs fetch_passkeys, one row
passkey_of_row(row) ==
    [credential_id |-> row.id, relying_party_id |-> row.rp_id,
     relying_party_name |-> row.rp_name, user_handle |-> row.user_id,
     user_display_name |-> row.username, counter |-> to_string(row.counter),
     key_algorithm |-> unselected_key_algorithm,
     private_key |-> try_from_base64(row.key).val]

\* model.rs fetch_passkeys
fetch_passkeys(conn) ==
    IF \E i \in 1..Len(conn) : ~try_from_base64(conn[i].key).ok
    THEN Err("InvalidType")
    ELSE Ok([i \in 1..Len(conn) |-> passkey_of_row(conn[i])])

\* The databases a run can start with: empty, the mock vault, and one whose
\* key column holds text that is no base64.
DbStates ==
    {<<>>,
     <<Row(PK_wendy, <<"0">>), Row(PK_ebay, <<"4", "2">>)>>,
     <<[Row(PK_wendy, <<"0">>) EXCEPT !.key = <<URL_MINUS>>]>>}

\* ====================================================== state of the model
VARIABLES
    keys,       \* engine: key pair -> "unborn", "live" or "consumed"
    calls,      \* engine: key pair -> number of seal and open calls made on it
    lastOp,     \* engine: the last operation called and its key pair
    wire,       \* engine: the envelope in transit and the seal that made it
    tampers,    \* engine: fields of the envelope rewritten in transit
    lastOpen,   \* engine: the last open call of the envelope now in transit
    db,         \* the rows of table passkeys of uvm-rs.db, in rowid order
    db0,        \* the rows at the start of the behaviour
    dir,        \* the watched directory: path -> entry
    watching,   \* whether the Import's watcher is registered on the directory
    events,     \* the watcher's channel: events sent and not yet received
    imp,        \* the Import run: state, key pair, path, envelope, vault, error
    impLog,     \* the Import run: what it has done so far
    exp,        \* the Export run: state, announcement, vault, result, error
    expLog,     \* the Export run: what it has done so far
    lastStore,  \* store: the last store_passkeys call: batch and result
    lastFetch,  \* store: the result of a fetch_passkeys call made after it
    fnIn,       \* functions: the arguments of the call
    fnOut,      \* functions: what the call returned
    drawn,      \* seal: the number of values the CSPRNG has handed out
    used,       \* seal: the salts and nonces of the envelopes sealed so far
    lastSeal    \* seal: the last seal call: arguments, draws and result

cryptoVars == <<keys, calls, lastOp, wire, tampers, lastOpen>>
flowVars == <<db, db0, dir, watching, events, imp, impLog, exp, expLog>>
storeVars == <<lastStore, lastFetch>>
pureVars == <<fnIn, fnOut, drawn, used, lastSeal>>
vars == <<keys, calls, lastOp, wire, tampers, lastOpen,
          db, db0, dir, watching, events, imp, impLog, exp, expLog,
          lastStore, lastFetch, fnIn, fnOut, drawn, used, lastSeal>>

\* The variables of the harnesses a behaviour does not run stay as they are.
PureIdle == fnIn = <<>> /\ fnOut = <<>> /\ drawn = 0 /\ used = {} /\ lastSeal = <<>>

KeyIds == 1..MaxKeys
Draws == 0..MaxRand
Rngs == [salt : Draws, nonce : Draws]

NoWire == [box |-> NoVal, origin |-> NoVal]
EnvelopeFields ==
    {"public_key", "encrypted_vault", "key_derivation_salt", "encryption_nonce",
     "authentication_tag"}

\* What is recorded of an open call: the key pair, the step that decided the
\* result, the result, and of the envelope opened: the vault that was sealed
\* into it, whether it was sealed against this key pair's announcement, the
\* fields rewritten since and whether a rewrite changed a length.
NoOpen ==
    [key |-> 0, step |-> "none", res |-> Err("none"), sealed_vault |-> NoVal,
     addressed |-> FALSE, changed |-> {}, resized |-> FALSE]

\* ------------------------------------------------------- the sealing engine
\* A receiver that is only borrowed stays usable after the call.
moved_as_borrow(status) == status

\* seal and open take self by value: the key pair is moved into the call and
\* dropped by it, whatever the call returns.
moved(status) == "consumed"

\* to_open_box takes &self: the key pair stays with the caller.
borrowed(status) == status

\* The announcements a caller can hold: those of the key pairs generated so
\* far, a key of the wrong length and a point of low order.
KnownBoxes ==
    {to_open_box(j) : j \in {i \in KeyIds : keys[i] # "unborn"}}
    \cup {OpenBox([len |-> X25519_LEN - 1, point |-> 1]), OpenBox(LowOrderPoint)}

\* LocalKeyPair::new: None when the CSPRNG fails, else a fresh key pair.
New(draw) ==
    /\ \E k \in KeyIds :
          /\ keys[k] = "unborn"
          /\ \A j \in 1..(k - 1) : keys[j] # "unborn"
          /\ keys' = IF draw = 0 THEN keys ELSE [keys EXCEPT ![k] = "live"]
          /\ lastOp' = [op |-> "new", key |-> IF draw = 0 THEN 0 ELSE k]
    /\ UNCHANGED <<calls, wire, tampers, lastOpen>>
    /\ UNCHANGED <<flowVars, storeVars, pureVars>>

ToOpenBox(k) ==
    /\ keys[k] = "live"
    /\ keys' = [keys EXCEPT ![k] = borrowed(@)]
    /\ lastOp' = [op |-> "to_open_box", key |-> k]
    /\ UNCHANGED <<calls, wire, tampers, lastOpen>>
    /\ UNCHANGED <<flowVars, storeVars, pureVars>>

Seal(k, open_box, vault, rng) ==
    /\ keys[k] = "live"
    /\ keys' = [keys EXCEPT ![k] = moved(@)]
    /\ calls' = [calls EXCEPT ![k] = @ + 1]
    /\ lastOp' = [op |-> "seal", key |-> k]
    /\ LET res == seal(k, open_box, vault, rng)
       IN IF res.ok
          THEN /\ wire' = [box |-> res.val,
                           origin |-> [sealer |-> k, open_box |-> open_box,
                                       vault |-> vault, box |-> res.val]]
               /\ tampers' = 0
               /\ lastOpen' = NoOpen
          ELSE UNCHANGED <<wire, tampers, lastOpen>>
    /\ UNCHANGED <<flowVars, storeVars, pureVars>>

\* The transport rewrites one field of the envelope in transit.
TamperedValues(field, old) ==
    CASE field \in {"encrypted_vault", "authentication_tag"} ->
            {[old EXCEPT !.flip = 1]}
      [] field \in {"encryption_nonce", "key_derivation_salt"} ->
            {[old EXCEPT !.v = 0], [old EXCEPT !.len = @ - 1]}
      [] field = "public_key" ->
            {[old EXCEPT !.len = @ - 1], LowOrderPoint}
            \cup {compute_public_key(j) : j \in KeyIds}

Tamper(field) ==
    /\ wire # NoWire
    /\ tampers < MaxTamper
    /\ \E new \in TamperedValues(field, wire.box[field]) \ {wire.box[field]} :
          wire' = [wire EXCEPT !.box[field] = new]
    /\ tampers' = tampers + 1
    /\ lastOpen' = NoOpen
    /\ UNCHANGED <<keys, calls, lastOp>>
    /\ UNCHANGED <<flowVars, storeVars, pureVars>>

Open(k) ==
    /\ keys[k] = "live"
    /\ wire # NoWire
    /\ keys' = [keys EXCEPT ![k] = moved(@)]
    /\ calls' = [calls EXCEPT ![k] = @ + 1]
    /\ lastOp' = [op |-> "open", key |-> k]
    /\ lastOpen' =
          [key |-> k, step |-> open_step(k, wire.box), res |-> open(k, wire.box),
           sealed_vault |-> wire.origin.vault,
           addressed |-> (wire.origin.open_box = to_open_box(k)),
           changed |-> {f \in EnvelopeFields : wire.box[f] # wire.origin.box[f]},
           resized |-> \E f \in {"public_key", "key_derivation_salt", "encryption_nonce"} :
                          wire.box[f].len # wire.origin.box[f].len]
    /\ UNCHANGED <<wire, tampers>>
    /\ UNCHANGED <<flowVars, storeVars, pureVars>>

CryptoInit ==
    /\ keys = [k \in KeyIds |-> "unborn"]
    /\ calls = [k \in KeyIds |-> 0]
    /\ lastOp = [op |-> "none", key |-> 0]
    /\ wire = NoWire
    /\ tampers = 0
    /\ lastOpen = NoOpen
    /\ db = <<>> /\ db0 = <<>>
    /\ dir = <<>> /\ watching = FALSE /\ events = <<>>
    /\ imp = <<>> /\ impLog = <<>> /\ exp = <<>> /\ expLog = <<>>
    /\ lastStore = <<>> /\ lastFetch = <<>>
    /\ PureIdle

CryptoNext ==
    \/ \E draw \in Draws : New(draw)
    \/ \E k \in KeyIds : ToOpenBox(k)
    \/ \E k \in KeyIds, open_box \in KnownBoxes, vault \in Vaults, rng \in Rngs :
          Seal(k, open_box, vault, rng)
    \/ \E field \in EnvelopeFields : Tamper(field)
    \/ \E k \in KeyIds : Open(k)

CryptoSpec == CryptoInit /\ [][CryptoNext]_vars

\* ============================================================== transport
\* A path of the watched directory is its file stem and its extension.
Path(stem, ext) == [stem |-> stem, ext |-> ext]
NoPath == Path("", "")

\* schema.rs ToFileExtension
OpenBox_FILE_EXT == "openbox"
SealedBox_FILE_EXT == "sealedbox"

\* main.rs write_file on a directory: the file uvm-rs.<extension> in it.
written_path(extension) == Path("uvm-rs", extension)

PeerPath == Path("peer", "sealedbox")       \* a file a peer writes
NotesPath == Path("notes", "txt")           \* a file of another kind
BundlePath == Path("bundle", "sealedbox")   \* a directory of that name
Paths == {written_path(OpenBox_FILE_EXT), written_path(SealedBox_FILE_EXT),
          PeerPath, NotesPath, BundlePath}

\* The JSON text of a file: of an OpenBox, of a SealedBox, or neither.
Content(tag, box) == [tag |-> tag, box |-> box]
NoContent == Content("none", NoVal)
JunkContent == Content("junk", NoVal)

\* An entry of the directory: absent, a file with its content, or a
\* directory holding one file inner.sealedbox with that content.
Absent == [kind |-> "absent", content |-> NoContent]
FileEntry(c) == [kind |-> "file", content |-> c]
DirEntry(c) == [kind |-> "dir", content |-> c]

\* serde_json::from_reader::<T>: the file must hold the JSON of a T.
from_reader(content, extension) ==
    IF content.tag = extension THEN Ok(content.box) ELSE Err("Io")

\* main.rs load_file::<T>: the path itself when it is a file with T's
\* extension, else the entry of the directory at that path that has it.
load_file(d, path, extension) ==
    IF d[path].kind = "file" /\ path.ext = extension
    THEN from_reader(d[path].content, extension)
    ELSE IF d[path].kind = "dir"
    THEN from_reader(d[path].content, extension)
    ELSE Err("Io")

\* The file load_file reads: the path, or the file inside the directory.
loaded_file(d, path, extension) ==
    IF d[path].kind = "file" /\ path.ext = extension
    THEN path
    ELSE Path(path.stem \o "." \o path.ext \o "/inner", extension)

\* A watcher event: an error, or the paths the change is about.
ErrEvent == [ok |-> FALSE, paths |-> <<>>]
Event(paths) == [ok |-> TRUE, paths |-> paths]

\* import.rs:57-60: the first path of the event whose extension is
\* SealedBox::FILE_EXT, NoPath when there is none.
RECURSIVE find_sealed_path(_)
find_sealed_path(paths) ==
    IF Len(paths) = 0 THEN NoPath
    ELSE IF paths[1].ext = SealedBox_FILE_EXT THEN paths[1]
    ELSE find_sealed_path(Tail(paths))

\* ================================================================ the runs
\* One behaviour is one run of main with one operation; the key pair of the
\* run and the key pair of the peer on the transport are named by role.
KeyOf == [import |-> 1, export |-> 2, peer |-> 3]

NoRun == [pc |-> "Off", sealed_path |-> NoPath, sealed |-> NoVal,
          vault |-> NoVal, error |-> "none", open_box |-> NoVal, result |-> NoVal]
IdleRun == [NoRun EXCEPT !.pc = "Idle"]
NoLog == [keygens |-> 0, announcements |-> 0, opens |-> 0, seals |-> 0,
          stores |-> <<>>, loaded |-> NoPath, published |-> 0]

\* A run that takes the failed step again instead of returning.
Failed_as_retry(run, error) == run

\* The run returns the error: it is over.
Failed(run, error) == [run EXCEPT !.pc = "Failed", !.error = error]

\* What the peers write on the transport: envelopes sealed against the
\* announcement found in the directory (one with its ciphertext changed, one
\* with an 11-byte nonce, one holding no vault), and text that is no JSON.
PeerVaults == {Vault(<<PK_wendy, PK_ebay>>), Vault(<<PK_zeros, PK_text>>)}
PeerSeal(open_box, vault) == seal(KeyOf.peer, open_box, vault, [salt |-> 1, nonce |-> 1]).val
PeerContents(d) ==
    LET announcement == d[written_path(OpenBox_FILE_EXT)]
        genuine == {PeerSeal(announcement.content.box, v) : v \in PeerVaults}
        one == PeerSeal(announcement.content.box, Vault(<<PK_wendy, PK_ebay>>))
        key == one.encrypted_vault.key
        nonce == one.encryption_nonce
        junkSealed == AeadCiphertext(key, nonce, JunkDoc)
    IN IF announcement.kind # "file" THEN {JunkContent}
       ELSE {Content(SealedBox_FILE_EXT, b) : b \in genuine}
            \cup {Content(SealedBox_FILE_EXT, [one EXCEPT !.encrypted_vault.flip = 1]),
                  Content(SealedBox_FILE_EXT, [one EXCEPT !.encryption_nonce.len = @ - 1]),
                  Content(SealedBox_FILE_EXT,
                          [one EXCEPT !.encrypted_vault = junkSealed,
                                      !.authentication_tag = AeadTag(key, nonce, junkSealed)]),
                  JunkContent}

\* ------------------------------------------------------------- import.rs
\* import.rs:19-32: generate the key pair, derive the announcement, create
\* the directory and write the announcement into it.
ImportAnnounce(draw, fsOk) ==
    /\ imp.pc = "Idle"
    /\ IF draw = 0
       THEN /\ imp' = Failed(imp, "Csprng")
            /\ UNCHANGED <<impLog, dir>>
       ELSE IF ~fsOk
       THEN /\ imp' = Failed(imp, "Io")
            /\ impLog' = [impLog EXCEPT !.keygens = @ + 1]
            /\ UNCHANGED dir
       ELSE /\ imp' = [imp EXCEPT !.pc = "Announced"]
            /\ impLog' = [impLog EXCEPT !.keygens = @ + 1, !.announcements = @ + 1]
            /\ dir' = [dir EXCEPT ![written_path(OpenBox_FILE_EXT)] =
                          FileEntry(Content(OpenBox_FILE_EXT, to_open_box(KeyOf.import)))]
    /\ UNCHANGED <<db, db0, watching, events, exp, expLog>>
    /\ UNCHANGED <<cryptoVars, storeVars, pureVars>>

\* import.rs:35-51: create the channel and register the watcher.
ImportWatch(ok) ==
    /\ imp.pc = "Announced"
    /\ IF ok
       THEN /\ imp' = [imp EXCEPT !.pc = "AwaitingCounterpart"]
            /\ watching' = TRUE
       ELSE /\ imp' = Failed(imp, "Io")
            /\ UNCHANGED watching
    /\ UNCHANGED <<db, db0, dir, events, impLog, exp, expLog>>
    /\ UNCHANGED <<cryptoVars, storeVars, pureVars>>

\* Whether an event takes the loop of import.rs:53-64 out of the wait.
is_counterpart(event) == find_sealed_path(event.paths) # NoPath

\* import.rs:53-64: one turn of the loop, on the next event of the channel.
\* The channel is not read again once the loop is left.
ImportRecv ==
    /\ imp.pc = "AwaitingCounterpart"
    /\ events # <<>>
    /\ LET event == Head(events)
       IN IF ~event.ok
          THEN /\ imp' = Failed(imp, "Io")
               /\ watching' = FALSE
               /\ events' = <<>>
          ELSE IF ~is_counterpart(event)
          THEN /\ events' = Tail(events)
               /\ UNCHANGED <<imp, watching>>
          ELSE /\ imp' = [imp EXCEPT !.pc = "Received",
                                     !.sealed_path = find_sealed_path(event.paths)]
               /\ watching' = FALSE
               /\ events' = <<>>
    /\ UNCHANGED <<db, db0, dir, impLog, exp, expLog>>
    /\ UNCHANGED <<cryptoVars, storeVars, pureVars>>

\* An import that goes on with an empty vault when open fails.
import_after_open_unchecked(run, sealed, vault) ==
    IF vault = Panic THEN [run EXCEPT !.pc = "Aborted", !.sealed = sealed]
    ELSE IF ~vault.ok THEN [run EXCEPT !.sealed = sealed, !.vault = Vault(<<>>)]
    ELSE [run EXCEPT !.sealed = sealed, !.vault = vault.val]

\* import.rs:67, let vault = key_pair.open(sealed)?: the run after the call.
import_after_open(run, sealed, vault) ==
    IF vault = Panic THEN [run EXCEPT !.pc = "Aborted", !.sealed = sealed]
    ELSE IF ~vault.ok THEN [Failed(run, vault.err) EXCEPT !.sealed = sealed]
    ELSE [run EXCEPT !.sealed = sealed, !.vault = vault.val]

\* import.rs:66-67: load the envelope and open it with the key pair.  The
\* run stays Received, holding the vault, until the vault is stored.
ImportOpen ==
    /\ imp.pc = "Received"
    /\ imp.vault = NoVal
    /\ LET sealed == load_file(dir, imp.sealed_path, SealedBox_FILE_EXT)
           vault == open(KeyOf.import, sealed.val)
       IN IF ~sealed.ok
          THEN /\ imp' = Failed(imp, sealed.err)
               /\ UNCHANGED impLog
          ELSE /\ impLog' = [impLog EXCEPT
                                !.opens = @ + 1,
                                !.loaded = loaded_file(dir, imp.sealed_path, SealedBox_FILE_EXT)]
               /\ imp' = import_after_open(imp, sealed.val, vault)
    /\ UNCHANGED <<db, db0, dir, watching, events, exp, expLog>>
    /\ UNCHANGED <<cryptoVars, storeVars, pureVars>>

\* import.rs:69-78: store the credentials of the vault, list them, return.
ImportStore ==
    /\ imp.pc = "Received"
    /\ imp.vault # NoVal
    /\ LET stored == store_passkeys(db, imp.vault.passkeys)
       IN /\ db' = stored.conn
          /\ impLog' = [impLog EXCEPT !.stores = Append(@, imp.vault.passkeys)]
          /\ imp' = IF stored.res = Panic THEN [imp EXCEPT !.pc = "Aborted"]
                    ELSE IF ~stored.res.ok THEN Failed(imp, "Io")
                    ELSE [imp EXCEPT !.pc = "Opened"]
    /\ UNCHANGED <<db0, dir, watching, events, exp, expLog>>
    /\ UNCHANGED <<cryptoVars, storeVars, pureVars>>

ImportStep ==
    \/ \E draw \in Draws, fsOk \in BOOLEAN : ImportAnnounce(draw, fsOk)
    \/ \E ok \in BOOLEAN : ImportWatch(ok)
    \/ ImportRecv
    \/ ImportOpen
    \/ ImportStore

\* ------------------------------------------------------------- export.rs
\* The artifacts main writes to the transport for the result of export:
\* main.rs:36-38 only looks at the error and writes nothing.
main_publishes(result) == 0

\* main.rs:29: export is entered with the announcement it is to seal
\* against: one on the transport, or one that is no X25519 key.
ExportEnter(open_box) ==
    /\ exp.pc = "Idle"
    /\ exp' = [exp EXCEPT !.pc = "AnnouncementLoaded", !.open_box = open_box]
    /\ UNCHANGED <<db, db0, dir, watching, events, imp, impLog, expLog>>
    /\ UNCHANGED <<cryptoVars, storeVars, pureVars>>

\* export.rs:10-30 and main.rs:36-38: fetch the vault, generate the key
\* pair, seal, hand the result to main.
ExportSeal(draw, rng) ==
    /\ exp.pc = "AnnouncementLoaded"
    /\ LET passkeys == fetch_passkeys(db)
           sealed == seal(KeyOf.export, exp.open_box, Vault(passkeys.val), rng)
       IN IF ~passkeys.ok
          THEN /\ exp' = Failed(exp, "Io")
               /\ UNCHANGED expLog
          ELSE IF draw = 0
          THEN /\ exp' = Failed([exp EXCEPT !.vault = Vault(passkeys.val)], "Io")
               /\ UNCHANGED expLog
          ELSE /\ exp' = IF sealed.ok
                         THEN [exp EXCEPT !.pc = "Sealed", !.vault = Vault(passkeys.val),
                                          !.result = sealed.val]
                         ELSE Failed([exp EXCEPT !.vault = Vault(passkeys.val)], "Io")
               /\ expLog' = [expLog EXCEPT
                                !.keygens = @ + 1, !.seals = @ + 1,
                                !.published = @ + main_publishes(sealed)]
    /\ UNCHANGED <<db, db0, dir, watching, events, imp, impLog>>
    /\ UNCHANGED <<cryptoVars, storeVars, pureVars>>

ExportStep ==
    \/ \E open_box \in {to_open_box(KeyOf.import), to_open_box(KeyOf.peer),
                        OpenBox(LowOrderPoint)} : ExportEnter(open_box)
    \/ \E draw \in Draws, rng \in Rngs : ExportSeal(draw, rng)

\* --------------------------------------------------------- the transport
\* The event the watcher sends for a change of path, when it is registered.
Notify(paths) ==
    IF watching
    THEN /\ Len(events) < MaxEvents
         /\ events' = Append(events, Event(paths))
    ELSE UNCHANGED events

\* A peer, or anything else, writes a file or makes a directory.
EnvPublish(path, content) ==
    /\ dir' = [dir EXCEPT ![path] = IF path = BundlePath THEN DirEntry(content)
                                    ELSE FileEntry(content)]
    /\ Notify(<<path>>)
    /\ UNCHANGED <<db, db0, watching, imp, impLog, exp, expLog>>
    /\ UNCHANGED <<cryptoVars, storeVars, pureVars>>

EnvRemove(path) ==
    /\ dir[path].kind # "absent"
    /\ dir' = [dir EXCEPT ![path] = Absent]
    /\ Notify(<<path>>)
    /\ UNCHANGED <<db, db0, watching, imp, impLog, exp, expLog>>
    /\ UNCHANGED <<cryptoVars, storeVars, pureVars>>

\* The watcher reports an error instead of an event.
EnvWatchError ==
    /\ watching
    /\ Len(events) < MaxEvents
    /\ events' = Append(events, ErrEvent)
    /\ UNCHANGED <<db, db0, dir, watching, imp, impLog, exp, expLog>>
    /\ UNCHANGED <<cryptoVars, storeVars, pureVars>>

EnvStep ==
    \/ \E path \in {PeerPath, BundlePath}, content \in PeerContents(dir) :
          EnvPublish(path, content)
    \/ EnvPublish(NotesPath, JunkContent)
    \/ \E path \in {PeerPath, BundlePath} : EnvRemove(path)
    \/ EnvWatchError

\* main.rs:27-35: the run is an import or an export on the database found
\* beside the executable.
Init ==
    /\ CryptoInit!1 /\ CryptoInit!2 /\ CryptoInit!3
    /\ wire = NoWire /\ tampers = 0 /\ lastOpen = NoOpen
    /\ db \in DbStates
    /\ db0 = db
    /\ dir = [p \in Paths |-> Absent]
    /\ watching = FALSE
    /\ events = <<>>
    /\ \E operation \in {"Import", "Export"} :
          /\ imp = IF operation = "Import" THEN IdleRun ELSE NoRun
          /\ exp = IF operation = "Export" THEN IdleRun ELSE NoRun
    /\ impLog = NoLog
    /\ expLog = NoLog
    /\ lastStore = <<>> /\ lastFetch = <<>>
    /\ PureIdle

Next == ImportStep \/ ExportStep \/ EnvStep

Spec == Init /\ [][Next]_vars

\* The run takes its next step whenever it has one; the transport and the
\* peers are under no obligation.
FairSpec == Spec /\ WF_vars(ImportStep) /\ WF_vars(ExportStep)

\* ------------------------------------------------- the store on its own
NoStore == [batch |-> <<>>, before |-> <<>>, res |-> Err("none"), called |-> FALSE]
NoFetch == [res |-> Err("none"), called |-> FALSE]

RECURSIVE SeqsUpTo(_, _)
SeqsUpTo(S, n) ==
    IF n = 0 THEN {<<>>}
    ELSE LET shorter == SeqsUpTo(S, n - 1)
         IN shorter \cup {Append(t, x) : t \in {u \in shorter : Len(u) = n - 1}, x \in S}

Batches == SeqsUpTo(PasskeyUniverse, MaxBatch)

StoreCall(passkeys) ==
    /\ LET stored == store_passkeys(db, passkeys)
       IN /\ db' = stored.conn
          /\ lastStore' = [batch |-> passkeys, before |-> db, res |-> stored.res,
                            called |-> TRUE]
    /\ lastFetch' = NoFetch
    /\ UNCHANGED <<db0, dir, watching, events, imp, impLog, exp, expLog>>
    /\ UNCHANGED <<cryptoVars, pureVars>>

FetchCall ==
    /\ lastFetch' = [res |-> fetch_passkeys(db), called |-> TRUE]
    /\ UNCHANGED <<db, db0, dir, watching, events, imp, impLog, exp, expLog, lastStore>>
    /\ UNCHANGED <<cryptoVars, pureVars>>

StoreInit ==
    /\ CryptoInit!1 /\ CryptoInit!2 /\ CryptoInit!3
    /\ wire = NoWire /\ tampers = 0 /\ lastOpen = NoOpen
    /\ db \in DbStates
    /\ db0 = db
    /\ dir = <<>> /\ watching = FALSE /\ events = <<>>
    /\ imp = <<>> /\ impLog = <<>> /\ exp = <<>> /\ expLog = <<>>
    /\ lastStore = NoStore
    /\ lastFetch = NoFetch
    /\ PureIdle

StoreNext ==
    \/ \E passkeys \in Batches : StoreCall(passkeys)
    \/ FetchCall

StoreSpec == StoreInit /\ [][StoreNext]_vars

\* ------------------------------------------------ the harnesses at rest
EngineIdle ==
    /\ keys = [k \in KeyIds |-> "unborn"]
    /\ calls = [k \in KeyIds |-> 0]
    /\ lastOp = [op |-> "none", key |-> 0]
    /\ wire = NoWire /\ tampers = 0 /\ lastOpen = NoOpen
RunsIdle ==
    /\ db = <<>> /\ db0 = <<>>
    /\ dir = <<>> /\ watching = FALSE /\ events = <<>>
    /\ imp = <<>> /\ impLog = <<>> /\ exp = <<>> /\ expLog = <<>>
StoreIdle == lastStore = <<>> /\ lastFetch = <<>>

\* ------------------------------------------------- the codec on its own
\* The byte strings decoded: up to MaxLen bytes, among them bytes whose
\* sextets are 62 and 63, the two characters the alphabets differ in.
ByteSet == {0, 1, 251, 255}
ByteStrings == SeqsUpTo(ByteSet, MaxLen)

CodecInputs ==
    {[fn |-> "deserialize", bytes |-> b, form |-> f, text |-> encode_as(f, b)] :
        b \in ByteStrings, f \in EncodingForms}

\* schema.rs base64::deserialize is called on the text of a field.
Deserialize ==
    /\ fnIn.fn = "deserialize"
    /\ fnOut = NoVal
    /\ fnOut' = base64_deserialize(fnIn.text)
    /\ UNCHANGED <<fnIn, drawn, used, lastSeal>>
    /\ UNCHANGED <<cryptoVars, flowVars, storeVars>>

CodecInit ==
    /\ EngineIdle /\ RunsIdle /\ StoreIdle
    /\ fnIn \in CodecInputs
    /\ fnOut = NoVal
    /\ drawn = 0 /\ used = {} /\ lastSeal = <<>>

CodecNext == Deserialize

CodecSpec == CodecInit /\ [][CodecNext]_vars

\* ------------------------------------------- the outputs on their own
\* What is printed: the Debug of each credential, the dbg! of the vault in
\* export, the table of list.
Sinks == {"Debug", "dbg", "list"}
render(sink, passkeys) ==
    CASE sink = "Debug" -> [i \in 1..Len(passkeys) |-> Passkey_fmt(passkeys[i])]
      [] sink = "dbg" -> dbg(Vault(passkeys))
      [] sink = "list" -> list(passkeys)

\* The same credentials with another private key.
AltKeys == {<<>>, <<7, 7>>}
rekeyed(passkeys, key) ==
    [i \in 1..Len(passkeys) |-> [passkeys[i] EXCEPT !.private_key = key]]

FmtInputs ==
    [fn : {"fmt"}, sink : Sinks, passkeys : Batches, key : AltKeys]

\* The credentials are printed, and so are their likes with the other key.
Format ==
    /\ fnIn.fn = "fmt"
    /\ fnOut = NoVal
    /\ fnOut' = [out |-> render(fnIn.sink, fnIn.passkeys),
                 other |-> render(fnIn.sink, rekeyed(fnIn.passkeys, fnIn.key))]
    /\ UNCHANGED <<fnIn, drawn, used, lastSeal>>
    /\ UNCHANGED <<cryptoVars, flowVars, storeVars>>

FmtInit ==
    /\ EngineIdle /\ RunsIdle /\ StoreIdle
    /\ fnIn \in FmtInputs
    /\ fnOut = NoVal
    /\ drawn = 0 /\ used = {} /\ lastSeal = <<>>

FmtNext == Format

FmtSpec == FmtInit /\ [][FmtNext]_vars

\* ------------------------------------------- one exchange on its own
\* A sealer seals a vault against the announcement of an addressee; an
\* opener, any of the key pairs, opens the envelope as it was sealed.
Parties == 1..MaxParties

ExchangeInputs ==
    [fn : {"exchange"}, sealer : Parties, addressee : Parties, opener : Parties,
     vault : Vaults, rng : Rngs]

NoExchange == [sealed |-> Err("none"), opened |-> NoVal]

\* The sealer calls seal with the addressee's announcement.
ExchangeSeal ==
    /\ fnIn.fn = "exchange"
    /\ fnOut = NoExchange
    /\ fnOut' = [fnOut EXCEPT !.sealed = seal(fnIn.sealer, to_open_box(fnIn.addressee),
                                              fnIn.vault, fnIn.rng)]
    /\ UNCHANGED <<fnIn, drawn, used, lastSeal>>
    /\ UNCHANGED <<cryptoVars, flowVars, storeVars>>

\* The opener calls open on the envelope.
ExchangeOpen ==
    /\ fnIn.fn = "exchange"
    /\ fnOut.sealed.ok
    /\ fnOut.opened = NoVal
    /\ fnOut' = [fnOut EXCEPT !.opened = open(fnIn.opener, fnOut.sealed.val)]
    /\ UNCHANGED <<fnIn, drawn, used, lastSeal>>
    /\ UNCHANGED <<cryptoVars, flowVars, storeVars>>

ExchangeInit ==
    /\ EngineIdle /\ RunsIdle /\ StoreIdle
    /\ fnIn \in ExchangeInputs
    /\ fnOut = NoExchange
    /\ drawn = 0 /\ used = {} /\ lastSeal = <<>>

ExchangeNext == ExchangeSeal \/ ExchangeOpen

ExchangeSpec == ExchangeInit /\ [][ExchangeNext]_vars

\* -------------------------------------------------- seal on its own
\* The calls of seal of one process, all drawing from one CSPRNG, which
\* hands out a value it has not handed out before at every draw that
\* succeeds.
NoSeal ==
    [called |-> FALSE, key |-> 0, open_box |-> NoVal, vault |-> NoVal,
     rng |-> NoVal, res |-> Err("none"), usedBefore |-> {}]

\* The announcements seal is called with: those of the key pairs, a key of
\* the wrong length and a point of low order.
SealBoxes ==
    {to_open_box(j) : j \in KeyIds}
    \cup {OpenBox([len |-> X25519_LEN - 1, point |-> 1]), OpenBox(LowOrderPoint)}

SealCall(k, open_box, vault, saltOk, nonceOk) ==
    /\ drawn + 2 <= 2 * MaxSeals
    /\ LET rng == [salt |-> IF saltOk THEN drawn + 1 ELSE 0,
                   nonce |-> IF nonceOk THEN drawn + 2 ELSE 0]
           res == seal(k, open_box, vault, rng)
       IN /\ lastSeal' = [called |-> TRUE, key |-> k, open_box |-> open_box,
                          vault |-> vault, rng |-> rng, res |-> res,
                          usedBefore |-> used]
          /\ used' = IF res.ok
                     THEN used \cup {res.val.key_derivation_salt,
                                     res.val.encryption_nonce}
                     ELSE used
    /\ drawn' = drawn + 2
    /\ UNCHANGED <<fnIn, fnOut>>
    /\ UNCHANGED <<cryptoVars, flowVars, storeVars>>

SealInit ==
    /\ EngineIdle /\ RunsIdle /\ StoreIdle
    /\ fnIn = <<>> /\ fnOut = <<>>
    /\ drawn = 0 /\ used = {} /\ lastSeal = NoSeal

SealNext ==
    \E k \in KeyIds, open_box \in SealBoxes, vault \in Vaults,
       saltOk \in BOOLEAN, nonceOk \in BOOLEAN :
          SealCall(k, open_box, vault, saltOk, nonceOk)

SealSpec == SealInit /\ [][SealNext]_vars

\* ==================================================== claims on the engine
\* C1 (round trip): when a key pair B opens an envelope that a seal produced
\* against B's own announcement and that reached B unchanged, open succeeds
\* and returns the vault that was sealed: same credentials, same order,
\* every field equal.
C1_RoundTrip ==
    (lastOpen.step # "none" /\ lastOpen.addressed /\ lastOpen.changed = {})
        => lastOpen.res = Ok(lastOpen.sealed_vault)

\* B has opened an unchanged envelope addressed to it that holds two
\* credentials.
C1_Witness ==
    /\ lastOpen.step = "done"
    /\ lastOpen.addressed /\ lastOpen.changed = {}
    /\ lastOpen.res.ok /\ Len(lastOpen.res.val.passkeys) = 2

\* C2 (single use): no key pair is ever the receiver of more than one seal
\* or open call; a key pair on which seal or open was called, whatever the
\* call returned, is consumed and no operation is called on it again; a
\* to_open_box call on a live key pair leaves it live.
C2_SingleUse ==
    [][\A k \in KeyIds :
          /\ calls'[k] <= 1
          /\ calls'[k] = 1 => keys'[k] = "consumed"
          /\ keys[k] = "consumed" =>
                /\ keys'[k] = "consumed"
                /\ calls'[k] = calls[k]
                /\ ~(lastOp' # lastOp /\ lastOp'.key = k)
          /\ (keys[k] = "live" /\ lastOp'.op = "to_open_box" /\ lastOp'.key = k)
                => (keys'[k] = "live" /\ calls'[k] = 0)]_vars

\* One key pair was consumed by a seal, the other one by an open that
\* failed.
C2_Witness ==
    /\ keys[1] = "consumed" /\ calls[1] = 1
    /\ keys[2] = "consumed" /\ calls[2] = 1
    /\ lastOp = [op |-> "open", key |-> 2]
    /\ lastOpen.key = 2 /\ ~lastOpen.res.ok

\* C3 (tamper detection): when B opens an envelope sealed against its
\* announcement in which encrypted_vault, authentication_tag or
\* encryption_nonce (and nothing else) was changed, lengths kept, open fails
\* with Error::Opening.
C3_TamperDetected ==
    (/\ lastOpen.step # "none"
     /\ lastOpen.addressed
     /\ lastOpen.changed # {}
     /\ lastOpen.changed \subseteq
            {"encrypted_vault", "authentication_tag", "encryption_nonce"}
     /\ ~lastOpen.resized)
        => lastOpen.res = Err("Opening")

\* B has opened an envelope addressed to it whose ciphertext and nonce were
\* both rewritten.
C3_Witness ==
    /\ lastOpen.step = "authentication"
    /\ lastOpen.addressed
    /\ lastOpen.changed = {"encrypted_vault", "encryption_nonce"}
    /\ ~lastOpen.resized

\* C4 (distinct error kinds), as claimed: the error open returns when a step
\* fails is the error of no other step; the steps are the agreement, the
\* HKDF derivation, the AEAD authentication and the deserialization.
C4_DistinctErrorKinds ==
    /\ lastOpen.step = "agreement" =>
          lastOpen.res.err \notin {hkdf_expand_error, "Opening", "Decoding"}
    /\ lastOpen.step = "authentication" =>
          lastOpen.res.err \notin {open_agree_error, hkdf_expand_error, "Decoding"}
    /\ lastOpen.step = "deserialization" =>
          lastOpen.res.err \notin {open_agree_error, hkdf_expand_error, "Opening"}

\* ====================================================== claims on the runs
ImportOver == imp.pc \in {"Opened", "Failed", "Aborted"}
ExportOver == exp.pc \in {"Sealed", "Failed"}

\* A sealedbox artifact is on the transport.
SealedArtifactPublished ==
    \E p \in Paths : p.ext = SealedBox_FILE_EXT /\ dir[p].kind # "absent"

\* C5 (timeout), as claimed: an Import that awaits the counterpart while no
\* sealedbox artifact is published does not stay in AwaitingCounterpart for
\* ever.
C5_Timeout ==
    (imp.pc = "AwaitingCounterpart")
        ~> (imp.pc # "AwaitingCounterpart" \/ SealedArtifactPublished)

\* The Import takes an event from its channel in this step.
ImportReceives ==
    imp.pc = "AwaitingCounterpart" /\ events # <<>> /\ Len(events') < Len(events)

\* C6 (tag filtering), as claimed: while awaiting, receiving an event none
\* of whose paths has the extension sealedbox changes nothing of the run,
\* the store or what was opened; the wait is left for Received only on an
\* event carrying a path with exactly that extension, which becomes the
\* path of the run; and the artifact then loaded is that path.
C6_TagFiltering ==
    [][/\ (ImportReceives /\ Head(events).ok
              /\ \A i \in 1..Len(Head(events).paths) :
                    Head(events).paths[i].ext # SealedBox_FILE_EXT)
            => (imp' = imp /\ impLog' = impLog /\ db' = db)
       /\ (imp.pc = "AwaitingCounterpart" /\ imp'.pc = "Received")
            => /\ ImportReceives /\ Head(events).ok
               /\ \E i \in 1..Len(Head(events).paths) :
                     imp'.sealed_path = Head(events).paths[i]
               /\ imp'.sealed_path.ext = SealedBox_FILE_EXT
       /\ impLog'.loaded # NoPath => impLog'.loaded = imp'.sealed_path]_vars

\* The transitions of the Import run: each state is entered from the one
\* before it; a run that holds a vault has opened it.
ImportTransitions ==
    {<<"Idle", "Announced">>, <<"Idle", "Failed">>,
     <<"Announced", "AwaitingCounterpart">>, <<"Announced", "Failed">>,
     <<"AwaitingCounterpart", "Received">>, <<"AwaitingCounterpart", "Failed">>,
     <<"Received", "Opened">>, <<"Received", "Failed">>, <<"Received", "Aborted">>}

\* C7 (import ordering): the Import run moves Idle, Announced,
\* AwaitingCounterpart, Received, then Opened or Failed (or the process
\* aborts while Received); the announcement is published before the wait
\* begins; open is attempted only after a sealedbox path was received;
\* store_passkeys is called only after open returned a vault, once, with
\* exactly that vault's credentials; a run that failed without a vault
\* stored nothing and the database is as it was.
C7_ImportOrdering ==
    [][/\ imp'.pc # imp.pc => <<imp.pc, imp'.pc>> \in ImportTransitions
       /\ imp'.pc \in {"AwaitingCounterpart", "Received", "Opened"} =>
             impLog'.announcements = 1
       /\ watching' => dir'[written_path(OpenBox_FILE_EXT)].kind = "file"
       /\ impLog'.opens > 0 =>
             /\ imp'.sealed_path.ext = SealedBox_FILE_EXT
             /\ imp'.pc \in {"Received", "Opened", "Failed", "Aborted"}
       /\ impLog'.stores # <<>> =>
             /\ imp'.vault # NoVal
             /\ open(KeyOf.import, imp'.sealed) = Ok(imp'.vault)
             /\ impLog'.stores = << imp'.vault.passkeys >>
       /\ imp'.pc = "Opened" => impLog'.stores # <<>>
       /\ (imp'.pc = "Failed" /\ imp'.vault = NoVal) =>
             (impLog'.stores = <<>> /\ db' = db0)]_vars

\* An Import went through every state and stored the two credentials of
\* the vault it opened.
C7_Witness ==
    /\ imp.pc = "Opened"
    /\ impLog.opens = 1
    /\ impLog.stores = << <<PK_wendy, PK_ebay>> >>

\* C8 (export publishes), as claimed: an Export that reached Sealed has
\* published exactly one sealedbox artifact, the envelope sealed against the
\* announcement it was given and holding the credentials it fetched; an
\* Export that reached Failed has published none.
C8_ExportPublishes ==
    /\ exp.pc = "Sealed" =>
          /\ expLog.published = 1
          /\ dir[written_path(SealedBox_FILE_EXT)] =
                FileEntry(Content(SealedBox_FILE_EXT, exp.result))
    /\ exp.pc = "Failed" => expLog.published = 0

\* C9 (single attempt), as claimed: a finished Import has generated exactly
\* one key pair, a finished Export exactly one; at most one announcement,
\* one open, one seal; a failed run takes no further step.
C9_SingleAttempt_AsClaimed ==
    /\ ImportOver => impLog.keygens = 1
    /\ ExportOver => expLog.keygens = 1
    /\ impLog.announcements <= 1 /\ impLog.opens <= 1 /\ expLog.seals <= 1

\* C9, amended: a run generates at most one key pair, and exactly one as
\* soon as it has announced, opened or sealed; it publishes at most one
\* announcement and attempts at most one open, or at most one seal; once
\* Failed, the run and what it has done never change again.
C9_SingleAttempt ==
    [][/\ impLog'.keygens <= 1 /\ expLog'.keygens <= 1
       /\ impLog'.announcements <= 1 /\ impLog'.opens <= 1 /\ expLog'.seals <= 1
       /\ (impLog'.announcements = 1 \/ impLog'.opens = 1) => impLog'.keygens = 1
       /\ expLog'.seals = 1 => expLog'.keygens = 1
       /\ imp'.pc \in {"Announced", "AwaitingCounterpart", "Received", "Opened"}
             => impLog'.keygens = 1
       /\ exp'.pc = "Sealed" => expLog'.keygens = 1
       /\ imp.pc = "Failed" => (imp' = imp /\ impLog' = impLog)
       /\ exp.pc = "Failed" => (exp' = exp /\ expLog' = expLog)]_vars

\* An Import failed in open, after one key pair, one announcement and one
\* open.
C9_Witness ==
    /\ imp.pc = "Failed" /\ imp.error = "Opening"
    /\ impLog.keygens = 1 /\ impLog.announcements = 1 /\ impLog.opens = 1

\* ===================================================== claims on the store
\* C10 (persistence round trip), as claimed: when store_passkeys returned Ok
\* for a batch whose counters are decimal u64 strings, the fetch_passkeys
\* that follows returns every credential of the batch, equal in every field.
C10_PersistenceRoundTrip ==
    (/\ lastStore.called /\ lastStore.res.ok
     /\ lastFetch.called
     /\ \A i \in 1..Len(lastStore.batch) : parse_u64(lastStore.batch[i].counter).ok)
        => /\ lastFetch.res.ok
           /\ \A i \in 1..Len(lastStore.batch) :
                 \E j \in 1..Len(lastFetch.res.val) :
                    lastFetch.res.val[j] = lastStore.batch[i]

\* C11 (atomic batch): after a store_passkeys call on a batch, the rows of
\* the store, and so what fetch_passkeys returns, are either those from
\* before the call (none of the batch applied) or, when the call returned
\* Ok, those with the whole batch applied; when the call failed, at the
\* first or at a later credential, they are those from before the call.
C11_AtomicBatch ==
    lastStore.called =>
        LET before == lastStore.before
            whole == execute_all(before, lastStore.batch, 1).tx
        IN /\ db = before \/ (lastStore.res.ok /\ db = whole)
           /\ ~lastStore.res.ok => db = before
           /\ lastFetch.called =>
                 /\ lastFetch.res \in {fetch_passkeys(before), fetch_passkeys(whole)}
                 /\ ~lastStore.res.ok => lastFetch.res = fetch_passkeys(before)

\* A batch of two on an empty store failed at its second credential, whose
\* counter does not fit an SQLite integer; the fetch after it returned
\* nothing.
C11_Witness ==
    /\ lastStore.called
    /\ lastStore.before = <<>>
    /\ lastStore.batch = <<PK_ebay, PK_big>>
    /\ lastStore.res = Err("ToSqlConversionFailure")
    /\ lastFetch.called /\ lastFetch.res = Ok(<<>>)

\* The credentials of a batch that are the last of their credential_id.
LastOfId(batch) ==
    {i \in 1..Len(batch) :
        \A j \in (i + 1)..Len(batch) : batch[j].credential_id # batch[i].credential_id}

\* C12 (upsert by credential_id), as claimed: the store never holds two
\* records of one credential_id; after a store_passkeys call that returned
\* Ok, the store holds for every credential_id of the batch the record of
\* the batch's last credential of that id, and the records of the other
\* credential_ids are those from before the call.
C12_UpsertByCredentialId ==
    /\ \A i, j \in 1..Len(db) : db[i].id = db[j].id => i = j
    /\ (lastStore.called /\ lastStore.res.ok) =>
          /\ \A i \in LastOfId(lastStore.batch) :
                \E r \in 1..Len(db) :
                   db[r] = Row(lastStore.batch[i], parse_u64(lastStore.batch[i].counter).val)
          /\ \A r \in 1..Len(lastStore.before) :
                (\A i \in 1..Len(lastStore.batch) :
                    lastStore.batch[i].credential_id # lastStore.before[r].id)
                => \E q \in 1..Len(db) : db[q] = lastStore.before[r]

\* ================================================ claims on the error kinds
\* C13 (errors keep their kind), as claimed: a failure that is not one of
\* the file system or the watcher is not surfaced with the generic I/O
\* error kind: every failure of an Export (fetching the credentials,
\* generating the key pair, sealing) and the failure of an Import to store
\* the credentials of the vault it opened.
C13_ErrorsKeepKind ==
    /\ exp.pc = "Failed" => exp.error # "Io"
    /\ (imp.pc = "Failed" /\ impLog.stores # <<>>) => imp.error # "Io"

\* ===================================================== claims on the codec
\* C14 (codec tolerance): for every byte string b, the field decoder
\* (try_from_base64, then try_from_base64url) returns exactly b for the
\* padded base64 text of b, the unpadded base64 text, the padded base64url
\* text and the unpadded base64url text.
C14_CodecTolerance ==
    (fnIn.fn = "deserialize" /\ fnOut # NoVal) => fnOut = Ok(fnIn.bytes)

\* The unpadded base64url text "-w" of the byte 251 was decoded: base64
\* rejects it and the fallback returns the byte.
C14_Witness ==
    /\ fnIn.fn = "deserialize"
    /\ fnIn.text = <<URL_MINUS, 48>>
    /\ ~try_from_base64(fnIn.text).ok
    /\ fnOut = Ok(<<251>>)

\* ====================================================== claims on seal
\* C15 (confidentiality): the encrypted_vault of every envelope a seal
\* returned neither starts with nor contains the serialized vault that was
\* sealed.
C15_Confidentiality ==
    (lastSeal.called /\ lastSeal.res.ok) =>
        /\ ~starts_with(lastSeal.res.val.encrypted_vault, to_vec(lastSeal.vault))
        /\ ~contains(lastSeal.res.val.encrypted_vault, to_vec(lastSeal.vault))

\* The mock vault was sealed: the envelope holds its encryption.
C15_Witness ==
    /\ lastSeal.called /\ lastSeal.res.ok
    /\ lastSeal.vault = Vault(<<PK_wendy, PK_ebay>>)
    /\ lastSeal.res.val.encrypted_vault.plaintext = to_vec(lastSeal.vault)

\* C17 (seal step order), as claimed: the error of seal is that of the
\* first failing step in the order salt draw, key agreement, HKDF
\* derivation, nonce draw; seal succeeds when none of them fails.  So with
\* an invalid peer key the result is the peer-key error even when the nonce
\* draw would fail.
C17_SealStepOrder ==
    lastSeal.called =>
        LET agreed == agree_ephemeral(lastSeal.key, lastSeal.open_box.public_key,
                                      seal_agree_error, NoVal)
        IN IF lastSeal.rng.salt = 0 THEN lastSeal.res = Err("Csprng")
           ELSE IF ~agreed.ok THEN lastSeal.res = Err(agreed.err)
           ELSE IF lastSeal.rng.nonce = 0 THEN lastSeal.res = Err("Csprng")
           ELSE lastSeal.res.ok

\* C18 (envelope shape and freshness): every envelope a seal returned has a
\* 32-byte salt, a 12-byte nonce, a 16-byte tag, an encrypted_vault as long
\* as the serialized vault and the public key of the sealing key pair; its
\* salt and its nonce are the two values this call drew from the CSPRNG, the
\* ones the key was derived with and the vault encrypted under, and neither
\* is a salt or nonce of an envelope sealed before.
C18_EnvelopeShape ==
    (lastSeal.called /\ lastSeal.res.ok) =>
        LET box == lastSeal.res.val
        IN /\ box.key_derivation_salt.len = SALT_LEN
           /\ box.encryption_nonce.len = NONCE_LEN
           /\ box.authentication_tag.len = TAG_LEN
           /\ aead_len(box.encrypted_vault) = json_len(to_vec(lastSeal.vault))
           /\ box.public_key = compute_public_key(lastSeal.key)
           /\ box.key_derivation_salt = fill(SALT_LEN, lastSeal.rng.salt).val
           /\ box.encryption_nonce = fill(NONCE_LEN, lastSeal.rng.nonce).val
           /\ box.encrypted_vault.key.salt = box.key_derivation_salt
           /\ box.encrypted_vault.nonce = box.encryption_nonce
           /\ box.key_derivation_salt \notin lastSeal.usedBefore
           /\ box.encryption_nonce \notin lastSeal.usedBefore

\* A second envelope was sealed, by key pair 2 against the announcement of
\* key pair 1, after a first one had used a salt and a nonce.
C18_Witness ==
    /\ lastSeal.called /\ lastSeal.res.ok
    /\ lastSeal.usedBefore # {}
    /\ lastSeal.key = 2 /\ lastSeal.open_box = to_open_box(1)
    /\ lastSeal.res.val.public_key # lastSeal.open_box.public_key
    /\ Len(lastSeal.vault.passkeys) = 2

\* =================================================== claims on the outputs
\* The Debug texts of the credentials in an output of Debug or dbg!.
DebugsIn(sink, out) == IF sink = "dbg" THEN out.value.fields[1][2] ELSE out

\* The credentials whose key an output shows as '<Redacted>'.
Redacted(sink, out) ==
    IF sink = "list"
    THEN {i \in 1..Len(out.rows) :
             \E c \in 1..Len(out.rows[i]) : out.rows[i][c] = "<Redacted>"}
    ELSE {i \in 1..Len(DebugsIn(sink, out)) :
             LET shown == DebugsIn(sink, out)[i].fields
             IN shown[Len(shown)] = <<"private_key", DebugStr("<Redacted>")>>}

\* C16 (private-key redaction), as claimed: every output (Debug, the dbg!
\* of export, the list table) is the same for credentials that differ only
\* in private_key, and shows '<Redacted>' in place of the key of every
\* credential.
C16_Redaction_AsClaimed ==
    (fnIn.fn = "fmt" /\ fnOut # NoVal) =>
        /\ fnOut.out = fnOut.other
        /\ Redacted(fnIn.sink, fnOut.out) = 1..Len(fnIn.passkeys)

\* C16, amended: every output is the same for credentials that differ only
\* in private_key; Debug and the dbg! of export show '<Redacted>' in place
\* of the key of every credential; the list table has no column for the key:
\* its columns are Website and Username, the relying party name and the
\* user display name.
C16_Redaction ==
    (fnIn.fn = "fmt" /\ fnOut # NoVal) =>
        /\ fnOut.out = fnOut.other
        /\ fnIn.sink \in {"Debug", "dbg"} =>
              Redacted(fnIn.sink, fnOut.out) = 1..Len(fnIn.passkeys)
        /\ fnIn.sink = "list" =>
              /\ fnOut.out.header = <<"Website", "Username">>
              /\ Len(fnOut.out.rows) = Len(fnIn.passkeys)
              /\ \A i \in 1..Len(fnIn.passkeys) :
                    fnOut.out.rows[i] = <<fnIn.passkeys[i].relying_party_name,
                                          fnIn.passkeys[i].user_display_name>>

\* The vault of export was printed by dbg! with the two mock credentials,
\* and with the same two under another private key.
C16_Witness ==
    /\ fnIn.fn = "fmt" /\ fnIn.sink = "dbg"
    /\ fnIn.passkeys = <<PK_wendy, PK_ebay>>
    /\ fnIn.key = <<7, 7>>
    /\ fnOut # NoVal
    /\ rekeyed(fnIn.passkeys, fnIn.key) # fnIn.passkeys
    /\ fnOut.out = fnOut.other

\* ================================================ claims on the transport
\* An envelope sealed against the Import's announcement lies in the watched
\* directory: a peer wrote it after the announcement was published.
CounterpartPublished ==
    /\ dir[PeerPath].kind = "file"
    /\ dir[PeerPath].content.tag = SealedBox_FILE_EXT

\* C19 (no lost counterpart), as claimed: once the Import has published its
\* announcement and a sealedbox artifact was written into the directory
\* after it, the Import does not stay before Received for ever while the
\* artifact lies there: it observes the artifact and leaves
\* AwaitingCounterpart.
C19_NoLostCounterpart ==
    (impLog.announcements = 1 /\ CounterpartPublished
        /\ imp.pc \in {"Announced", "AwaitingCounterpart"})
    ~> (imp.pc \notin {"Announced", "AwaitingCounterpart"} \/ ~CounterpartPublished)

\* C20 (no abnormal abort on received data), as claimed: whatever envelope
\* the Import received and whatever vault it decrypted, neither open nor
\* store_passkeys aborts the process: the run ends Opened or Failed.
C20_NoAbort == imp.pc # "Aborted"

\* ================================================= claims on the exchange
\* C21 (only the announcer can open): when a key pair other than the one
\* whose announcement an envelope was sealed against opens the envelope as
\* it was sealed, open fails with Error::Opening; open returns a vault only
\* to the key pair whose announcement was used.
C21_OnlyAnnouncerOpens ==
    (fnIn.fn = "exchange" /\ fnOut.opened # NoVal) =>
        /\ fnIn.opener # fnIn.addressee => fnOut.opened = Err("Opening")
        /\ fnOut.opened.ok => fnIn.opener = fnIn.addressee

\* Key pair 1 sealed the mock vault against the announcement of key pair 2
\* and key pair 3 opened the envelope.
C21_Witness ==
    /\ fnIn.fn = "exchange"
    /\ fnIn.sealer = 1 /\ fnIn.addressee = 2 /\ fnIn.opener = 3
    /\ fnIn.vault = Vault(<<PK_wendy, PK_ebay>>)
    /\ fnOut.sealed.ok
    /\ fnOut.opened = Err("Opening")

====
